---- MODULE Spec2Model ----
(***************************************************************************)
(* Model of ChessBoard (src/chess_opening_trainer.py): notation parsing,   *)
(* origin lookup, move application and castling-rights flags.              *)
(*                                                                         *)
(* A move text is a sequence of one-character strings.  A board is a       *)
(* function rank -> file -> cell character, rank 0 = Black's back rank.    *)
(* Python's list indexing is kept: an index in -8..-1 wraps, any other     *)
(* index outside 0..7 raises IndexError.                                   *)
(***************************************************************************)
EXTENDS Integers, Sequences, FiniteSets, TLC

\* ------------------------------------------------------------------ bounds
\* Number of make_move calls explored from the freshly constructed board.
MaxCalls == 3

\* ------------------------------------------------------- characters, text
\* None for a disambiguation hint (from_file_hint / from_rank_hint).
NoHint == 100

UpperChars == {"N", "B", "R", "Q", "K", "P", "O", "Z"}
DigitChars == {"0", "1", "2", "3", "4", "5", "6", "7", "8", "9"}
LowerChars == {"a", "b", "c", "d", "e", "f", "g", "h", "i", "o", "x"}

\* str.isupper() of one character
isupper(ch) == ch \in UpperChars

\* str.isalpha() of one character
isalpha(ch) == ch \in UpperChars \cup LowerChars

\* str.isdigit() of one character
isdigit(ch) == ch \in DigitChars

\* str.lower() of one character
lower(ch) ==
    CASE ch = "N" -> "n" [] ch = "B" -> "b" [] ch = "R" -> "r"
      [] ch = "Q" -> "q" [] ch = "K" -> "k" [] ch = "P" -> "p"
      [] ch = "O" -> "o" [] ch = "Z" -> "z" [] OTHER -> ch

\* str.upper() of one character
upper(ch) ==
    CASE ch = "n" -> "N" [] ch = "b" -> "B" [] ch = "r" -> "R"
      [] ch = "q" -> "Q" [] ch = "k" -> "K" [] ch = "p" -> "P"
      [] ch = "o" -> "O" [] ch = "z" -> "Z" [] OTHER -> ch

\* ord() of one character (ASCII)
ord(ch) ==
    CASE ch = " " -> 32 [] ch = "!" -> 33 [] ch = "#" -> 35 [] ch = "+" -> 43
      [] ch = "-" -> 45 [] ch = "?" -> 63
      [] ch = "0" -> 48 [] ch = "1" -> 49 [] ch = "2" -> 50 [] ch = "3" -> 51
      [] ch = "4" -> 52 [] ch = "5" -> 53 [] ch = "6" -> 54 [] ch = "7" -> 55
      [] ch = "8" -> 56 [] ch = "9" -> 57
      [] ch = "a" -> 97 [] ch = "b" -> 98 [] ch = "c" -> 99 [] ch = "d" -> 100
      [] ch = "e" -> 101 [] ch = "f" -> 102 [] ch = "g" -> 103 [] ch = "h" -> 104
      [] ch = "i" -> 105 [] ch = "k" -> 107 [] ch = "n" -> 110 [] ch = "o" -> 111
      [] ch = "p" -> 112 [] ch = "q" -> 113 [] ch = "r" -> 114 [] ch = "x" -> 120
      [] ch = "z" -> 122
      [] ch = "B" -> 66 [] ch = "K" -> 75 [] ch = "N" -> 78 [] ch = "O" -> 79
      [] ch = "P" -> 80 [] ch = "Q" -> 81 [] ch = "R" -> 82 [] ch = "Z" -> 90

\* int() of one digit character
int(ch) == ord(ch) - 48

\* str.replace(ch, '') : every occurrence of ch removed
replace(s, ch) == SelectSeq(s, LAMBDA c : c # ch)

\* str.strip() : leading and trailing blanks removed
RECURSIVE lstrip(_)
lstrip(s) == IF s # <<>> /\ Head(s) = " " THEN lstrip(Tail(s)) ELSE s

RECURSIVE rstrip(_)
rstrip(s) ==
    IF s # <<>> /\ s[Len(s)] = " " THEN rstrip(SubSeq(s, 1, Len(s) - 1)) ELSE s

strip(s) == rstrip(lstrip(s))

\* the membership lists of the two castling tests
KingsideTokens ==
    { <<"O", "-", "O">>, <<"0", "-", "0">>, <<"o", "-", "o">>,
      <<"O", "-", "o">>, <<"o", "-", "O">> }

QueensideTokens ==
    { <<"O", "-", "O", "-", "O">>, <<"0", "-", "0", "-", "0">>,
      <<"o", "-", "o", "-", "o">> }

\* ------------------------------------------------------------------ board
Coords == 0..7

\* the grid built by reset()
StartBoard ==
    [r \in Coords |->
        CASE r = 0 -> [f \in Coords |-> <<"r", "n", "b", "q", "k", "b", "n", "r">>[f + 1]]
          [] r = 1 -> [f \in Coords |-> "p"]
          [] r = 6 -> [f \in Coords |-> "P"]
          [] r = 7 -> [f \in Coords |-> <<"R", "N", "B", "Q", "K", "B", "N", "R">>[f + 1]]
          [] OTHER -> [f \in Coords |-> "."]]

\* the six castling-rights flags as reset() leaves them
StartFlags ==
    [white_king_moved |-> FALSE, black_king_moved |-> FALSE,
     white_rook_a_moved |-> FALSE, white_rook_h_moved |-> FALSE,
     black_rook_a_moved |-> FALSE, black_rook_h_moved |-> FALSE]

\* Python list index: 0..7 as is, -8..-1 from the end, anything else raises
IndexOk(i) == i >= -8 /\ i <= 7
Index(i) == IF i < 0 THEN i + 8 ELSE i

\* self.board[r][f] as an expression: the cell, or "IndexError"
at(b, r, f) ==
    IF IndexOk(r) /\ IndexOk(f) THEN b[Index(r)][Index(f)] ELSE "IndexError"

\* self.board[r][f] = v as a statement (the caller tests IndexOk)
put(b, r, f, v) ==
    [b EXCEPT ![Index(r)] = [@ EXCEPT ![Index(f)] = v]]

\* results of find_piece: a position, None, or a raised IndexError
Pos(r, f) == [tag |-> "pos", r |-> r, f |-> f]
None == [tag |-> "None", r |-> 0, f |-> 0]
Raised == [tag |-> "IndexError", r |-> 0, f |-> 0]

\* first entry of a sequence of find results that is a position, else None
FirstPos(results) ==
    LET hits == {i \in 1..Len(results) : results[i].tag = "pos"}
    IN  IF hits = {} THEN None
        ELSE results[CHOOSE i \in hits : \A j \in hits : i <= j]

\* the hint tests of the knight and sliding branches
HintsOk(r, f, from_file_hint, from_rank_hint) ==
    /\ (from_rank_hint = NoHint \/ r = from_rank_hint)
    /\ (from_file_hint = NoHint \/ f = from_file_hint)

\* ------------------------------------------------------------ find_piece
\* pawn capture loop: first candidate file whose cell behind the
\* destination holds the mover's pawn
PawnCapture(b, to_rank, to_file, from_file_hint, is_white_turn) ==
    LET r == IF is_white_turn THEN to_rank + 1 ELSE to_rank - 1
        pawn == IF is_white_turn THEN "P" ELSE "p"
        candidate_files == IF from_file_hint # NoHint
                           THEN <<from_file_hint>>
                           ELSE <<to_file - 1, to_file + 1>>
        try(f) == IF r \in Coords /\ f \in Coords /\ b[r][f] = pawn
                  THEN Pos(r, f) ELSE None
    IN  FirstPos([i \in 1..Len(candidate_files) |-> try(candidate_files[i])])

\* double push from the starting rank
PawnDouble(b, to_rank, to_file, is_white_turn) ==
    LET pawn == IF is_white_turn THEN "P" ELSE "p"
        dbl == IF is_white_turn THEN 4 ELSE 3
        home == IF is_white_turn THEN 6 ELSE 1
        mid == IF is_white_turn THEN 5 ELSE 2
    IN  IF to_rank # dbl THEN None
        ELSE IF at(b, home, to_file) = "IndexError" THEN Raised
        ELSE IF at(b, home, to_file) # pawn THEN None
        ELSE IF at(b, mid, to_file) # "." THEN None
        ELSE IF at(b, dbl, to_file) # "." THEN None
        ELSE Pos(home, to_file)

\* variant: the single push does not look at the destination cell
PawnPush_onto_occupied(b, to_rank, to_file, is_white_turn) ==
    LET pawn == IF is_white_turn THEN "P" ELSE "p"
        behind == IF is_white_turn THEN to_rank + 1 ELSE to_rank - 1
        guard == IF is_white_turn THEN to_rank + 1 < 8 ELSE to_rank - 1 >= 0
    IN  IF ~guard THEN PawnDouble(b, to_rank, to_file, is_white_turn)
        ELSE IF at(b, behind, to_file) = "IndexError" THEN Raised
        ELSE IF at(b, behind, to_file) # pawn
             THEN PawnDouble(b, to_rank, to_file, is_white_turn)
        ELSE Pos(behind, to_file)

\* single push, falling through to the double push
PawnPush(b, to_rank, to_file, is_white_turn) ==
    LET pawn == IF is_white_turn THEN "P" ELSE "p"
        behind == IF is_white_turn THEN to_rank + 1 ELSE to_rank - 1
        guard == IF is_white_turn THEN to_rank + 1 < 8 ELSE to_rank - 1 >= 0
    IN  IF ~guard THEN PawnDouble(b, to_rank, to_file, is_white_turn)
        ELSE IF at(b, behind, to_file) = "IndexError" THEN Raised
        ELSE IF at(b, behind, to_file) # pawn
             THEN PawnDouble(b, to_rank, to_file, is_white_turn)
        ELSE IF at(b, to_rank, to_file) = "IndexError" THEN Raised
        ELSE IF at(b, to_rank, to_file) # "."
             THEN PawnDouble(b, to_rank, to_file, is_white_turn)
        ELSE Pos(behind, to_file)

FindPawn(b, to_rank, to_file, from_file_hint, is_white_turn, is_capture) ==
    LET cap == IF is_capture
               THEN PawnCapture(b, to_rank, to_file, from_file_hint, is_white_turn)
               ELSE None
    IN  IF cap.tag = "pos" THEN cap
        ELSE PawnPush(b, to_rank, to_file, is_white_turn)

\* variant: the offsets tried in the opposite order
knight_moves_reversed ==
    << <<2, 1>>, <<2, -1>>, <<1, 2>>, <<1, -2>>,
       <<-1, 2>>, <<-1, -2>>, <<-2, 1>>, <<-2, -1>> >>

knight_moves ==
    << <<-2, -1>>, <<-2, 1>>, <<-1, -2>>, <<-1, 2>>,
       <<1, -2>>, <<1, 2>>, <<2, -1>>, <<2, 1>> >>

FindKnight(b, piece, to_rank, to_file, from_file_hint, from_rank_hint) ==
    LET try(d) ==
            LET r == to_rank + d[1]
                f == to_file + d[2]
            IN  IF r \in Coords /\ f \in Coords /\ b[r][f] = piece
                   /\ HintsOk(r, f, from_file_hint, from_rank_hint)
                THEN Pos(r, f) ELSE None
    IN  FirstPos([i \in 1..Len(knight_moves) |-> try(knight_moves[i])])

bishop_dirs == << <<-1, -1>>, <<-1, 1>>, <<1, -1>>, <<1, 1>> >>
rook_dirs == << <<-1, 0>>, <<1, 0>>, <<0, -1>>, <<0, 1>> >>
queen_dirs ==
    << <<-1, -1>>, <<-1, 0>>, <<-1, 1>>, <<0, -1>>,
       <<0, 1>>, <<1, -1>>, <<1, 0>>, <<1, 1>> >>

\* the while loop of one ray, entered at (r, f)
RECURSIVE Ray(_, _, _, _, _, _, _, _)
Ray(b, piece, r, f, dr, df, from_file_hint, from_rank_hint) ==
    IF ~(r \in Coords /\ f \in Coords) THEN None
    ELSE IF b[r][f] = piece /\ HintsOk(r, f, from_file_hint, from_rank_hint)
         THEN Pos(r, f)
    ELSE IF b[r][f] # "." THEN None
    ELSE Ray(b, piece, r + dr, f + df, dr, df, from_file_hint, from_rank_hint)

\* variant: a ray runs on past occupied cells to the nearest matching piece
FindSlider_sees_through(b, piece, dirs, to_rank, to_file, from_file_hint, from_rank_hint) ==
    LET far(d) ==
            LET ks == {k \in 1..7 :
                          /\ to_rank + k * d[1] \in Coords
                          /\ to_file + k * d[2] \in Coords
                          /\ b[to_rank + k * d[1]][to_file + k * d[2]] = piece
                          /\ HintsOk(to_rank + k * d[1], to_file + k * d[2],
                                     from_file_hint, from_rank_hint)}
                k0 == CHOOSE k \in ks : \A j \in ks : k <= j
            IN  IF ks = {} THEN None
                ELSE Pos(to_rank + k0 * d[1], to_file + k0 * d[2])
    IN  FirstPos([i \in 1..Len(dirs) |-> far(dirs[i])])

FindSlider(b, piece, dirs, to_rank, to_file, from_file_hint, from_rank_hint) ==
    FirstPos([i \in 1..Len(dirs) |->
                Ray(b, piece, to_rank + dirs[i][1], to_file + dirs[i][2],
                    dirs[i][1], dirs[i][2], from_file_hint, from_rank_hint)])

king_steps ==
    << <<-1, -1>>, <<-1, 0>>, <<-1, 1>>, <<0, -1>>,
       <<0, 1>>, <<1, -1>>, <<1, 0>>, <<1, 1>> >>

FindKing(b, piece, to_rank, to_file) ==
    LET try(d) ==
            LET r == to_rank + d[1]
                f == to_file + d[2]
            IN  IF r \in Coords /\ f \in Coords /\ b[r][f] = piece
                THEN Pos(r, f) ELSE None
    IN  FirstPos([i \in 1..Len(king_steps) |-> try(king_steps[i])])

find_piece(b, piece, to_rank, to_file, from_file_hint, from_rank_hint, is_white_turn, is_capture) ==
    LET piece_type == upper(piece)
    IN  CASE piece_type = "P" ->
               FindPawn(b, to_rank, to_file, from_file_hint, is_white_turn, is_capture)
          [] piece_type = "N" ->
               FindKnight(b, piece, to_rank, to_file, from_file_hint, from_rank_hint)
          [] piece_type = "B" ->
               FindSlider(b, piece, bishop_dirs, to_rank, to_file,
                          from_file_hint, from_rank_hint)
          [] piece_type = "R" ->
               FindSlider(b, piece, rook_dirs, to_rank, to_file,
                          from_file_hint, from_rank_hint)
          [] piece_type = "Q" ->
               FindSlider(b, piece, queen_dirs, to_rank, to_file,
                          from_file_hint, from_rank_hint)
          [] piece_type = "K" -> FindKing(b, piece, to_rank, to_file)
          [] OTHER -> None

\* ------------------------------------------------------------ parse_move
\* variant: the rank counted from White's side, int(square[-1]) - 1
square_to_coords_from_white(square) ==
    IF ~isdigit(square[Len(square)])
    THEN [tag |-> "ValueError", rank |-> 0, file |-> 0]
    ELSE [tag |-> "ok",
          rank |-> int(square[Len(square)]) - 1,
          file |-> ord(lower(square[1])) - ord("a")]

\* square_to_coords on a two-character text; int() raises ValueError on a
\* character that is not a digit, the file is never range-checked
square_to_coords(square) ==
    IF ~isdigit(square[Len(square)])
    THEN [tag |-> "ValueError", rank |-> 0, file |-> 0]
    ELSE [tag |-> "ok",
          rank |-> 8 - int(square[Len(square)]),
          file |-> ord(lower(square[1])) - ord("a")]

\* coords_to_square
coords_to_square(rank, file) ==
    << <<"a", "b", "c", "d", "e", "f", "g", "h">>[file + 1],
       <<"8", "7", "6", "5", "4", "3", "2", "1">>[rank + 1] >>

\* the text left after strip() and the four replace() calls
Cleaned(move) ==
    replace(replace(replace(replace(strip(move), "+"), "#"), "!"), "?")

\* move_part before and after the capture marker is removed
MovePartRaw(move) ==
    LET m == Cleaned(move) IN IF isupper(m[1]) THEN Tail(m) ELSE m

MovePart(move) == replace(MovePartRaw(move), "x")

\* piece_char
PieceChar(move) ==
    LET m == Cleaned(move) IN IF isupper(m[1]) THEN m[1] ELSE "P"

\* is_capture
IsCapture(move) == \E i \in 1..Len(MovePartRaw(move)) : MovePartRaw(move)[i] = "x"

\* disambig = move_part[:-2]
Disambig(move) == SubSeq(MovePart(move), 1, Len(MovePart(move)) - 2)

\* last file letter a-h of the disambiguation text, or no hint
FileHint(disambig) ==
    LET idx == {i \in 1..Len(disambig) :
                   /\ isalpha(disambig[i])
                   /\ ord(lower(disambig[i])) >= ord("a")
                   /\ ord(lower(disambig[i])) <= ord("h")}
    IN  IF idx = {} THEN NoHint
        ELSE ord(lower(disambig[CHOOSE i \in idx : \A j \in idx : j <= i])) - ord("a")

\* last digit of the disambiguation text, or no hint
RankHint(disambig) ==
    LET idx == {i \in 1..Len(disambig) : isdigit(disambig[i])}
    IN  IF idx = {} THEN NoHint
        ELSE 8 - int(disambig[CHOOSE i \in idx : \A j \in idx : j <= i])

\* results of parse_move: (from_pos, to_pos, piece), None, or a raised
\* IndexError; castle records which return statement produced the tuple
Parsed(from_rank, from_file, to_rank, to_file, piece, castle) ==
    [tag |-> "ok", from_rank |-> from_rank, from_file |-> from_file,
     to_rank |-> to_rank, to_file |-> to_file, piece |-> piece, castle |-> castle]

ParseNone ==
    [tag |-> "None", from_rank |-> 0, from_file |-> 0,
     to_rank |-> 0, to_file |-> 0, piece |-> ".", castle |-> "no"]

ParseRaised ==
    [tag |-> "IndexError", from_rank |-> 0, from_file |-> 0,
     to_rank |-> 0, to_file |-> 0, piece |-> ".", castle |-> "no"]

\* the locals of parse_move that do not depend on the board
ParseLocals(move, is_white_turn) ==
    [piece |-> IF is_white_turn THEN upper(PieceChar(move)) ELSE lower(PieceChar(move)),
     move_part |-> MovePart(move),
     from_file_hint |-> FileHint(Disambig(move)),
     from_rank_hint |-> RankHint(Disambig(move)),
     is_capture |-> IsCapture(move)]

\* from_pos = self.find_piece(...) and the return statements after it
ParseLookup(b, v, dest, is_white_turn) ==
    CHOOSE result \in
        {IF from_pos.tag = "IndexError" THEN ParseRaised
         ELSE IF from_pos.tag = "None" THEN ParseNone
         ELSE Parsed(from_pos.r, from_pos.f, dest.rank, dest.file, v.piece, "no") :
            from_pos \in {find_piece(b, v.piece, dest.rank, dest.file,
                                     v.from_file_hint, v.from_rank_hint,
                                     is_white_turn, v.is_capture)}} : TRUE

\* the destination square, then the lookup; a ValueError of int() is
\* caught and gives None
ParseDest(b, v, is_white_turn) ==
    CHOOSE result \in
        {IF dest.tag # "ok" THEN ParseNone
         ELSE ParseLookup(b, v, dest, is_white_turn) :
            dest \in {square_to_coords(SubSeq(v.move_part, Len(v.move_part) - 1,
                                              Len(v.move_part)))}} : TRUE

\* the part of parse_move after the castling tests; each local is
\* assigned once and read as a value afterwards
ParseNormal(b, move, is_white_turn) ==
    CHOOSE result \in
        {IF Len(v.move_part) < 2 THEN ParseNone
         ELSE ParseDest(b, v, is_white_turn) :
            v \in {ParseLocals(move, is_white_turn)}} : TRUE

parse_move(b, move, is_white_turn) ==
    LET m == Cleaned(move)
        rank == IF is_white_turn THEN 7 ELSE 0
        king == IF is_white_turn THEN "K" ELSE "k"
    IN  IF m \in KingsideTokens THEN Parsed(rank, 4, rank, 6, king, "kingside")
        ELSE IF m \in QueensideTokens THEN Parsed(rank, 4, rank, 2, king, "queenside")
        ELSE IF m = <<>> THEN ParseRaised
        ELSE ParseNormal(b, move, is_white_turn)

\* ------------------------------------------------------------- make_move
\* result of one make_move or reset call: the return value (or the raised
\* exception) and the object's fields afterwards
Result(res, b, fl) == [res |-> res, board |-> b, flags |-> fl]

\* variant: a failed parse puts the board back to the starting position
parse_failed_resets(b, fl) == Result("False", StartBoard, StartFlags)

\* "if not parsed: return False"
parse_failed(b, fl) == Result("False", b, fl)

\* variant: the kingside branch without "self.board[rank][7] = '.'"
castle_kingside_keeps_rook(b, fl, is_white_turn) ==
    LET rank == IF is_white_turn THEN 7 ELSE 0
        b1 == put(b, rank, 4, ".")
        b2 == put(b1, rank, 6, IF is_white_turn THEN "K" ELSE "k")
        b4 == put(b2, rank, 5, IF is_white_turn THEN "R" ELSE "r")
    IN  Result("True", b4,
               IF is_white_turn THEN [fl EXCEPT !.white_king_moved = TRUE]
                                ELSE [fl EXCEPT !.black_king_moved = TRUE])

\* variant: the kingside branch without "self.board[rank][4] = '.'"
castle_kingside_keeps_king(b, fl, is_white_turn) ==
    LET rank == IF is_white_turn THEN 7 ELSE 0
        b2 == put(b, rank, 6, IF is_white_turn THEN "K" ELSE "k")
        b3 == put(b2, rank, 7, ".")
        b4 == put(b3, rank, 5, IF is_white_turn THEN "R" ELSE "r")
    IN  Result("True", b4,
               IF is_white_turn THEN [fl EXCEPT !.white_king_moved = TRUE]
                                ELSE [fl EXCEPT !.black_king_moved = TRUE])

\* the kingside castling branch
castle_kingside(b, fl, is_white_turn) ==
    LET rank == IF is_white_turn THEN 7 ELSE 0
        b1 == put(b, rank, 4, ".")
        b2 == put(b1, rank, 6, IF is_white_turn THEN "K" ELSE "k")
        b3 == put(b2, rank, 7, ".")
        b4 == put(b3, rank, 5, IF is_white_turn THEN "R" ELSE "r")
    IN  Result("True", b4,
               IF is_white_turn THEN [fl EXCEPT !.white_king_moved = TRUE]
                                ELSE [fl EXCEPT !.black_king_moved = TRUE])

\* the queenside castling branch
castle_queenside(b, fl, is_white_turn) ==
    LET rank == IF is_white_turn THEN 7 ELSE 0
        b1 == put(b, rank, 4, ".")
        b2 == put(b1, rank, 2, IF is_white_turn THEN "K" ELSE "k")
        b3 == put(b2, rank, 0, ".")
        b4 == put(b3, rank, 3, IF is_white_turn THEN "R" ELSE "r")
    IN  Result("True", b4,
               IF is_white_turn THEN [fl EXCEPT !.white_king_moved = TRUE]
                                ELSE [fl EXCEPT !.black_king_moved = TRUE])

\* variant: the king flags are assigned from the moved piece instead of
\* only ever being set
track_flags_assigns(fl, moving_piece, from_rank, from_file) ==
    LET kf == [fl EXCEPT !.white_king_moved = (moving_piece = "K"),
                         !.black_king_moved = (moving_piece = "k")]
    IN  CASE moving_piece = "R" /\ from_rank = 7 /\ from_file = 0 ->
                [kf EXCEPT !.white_rook_a_moved = TRUE]
          [] moving_piece = "R" /\ from_rank = 7 /\ from_file = 7 ->
                [kf EXCEPT !.white_rook_h_moved = TRUE]
          [] moving_piece = "r" /\ from_rank = 0 /\ from_file = 0 ->
                [kf EXCEPT !.black_rook_a_moved = TRUE]
          [] moving_piece = "r" /\ from_rank = 0 /\ from_file = 7 ->
                [kf EXCEPT !.black_rook_h_moved = TRUE]
          [] OTHER -> kf

\* variant: the a-file and h-file tests of the rook branches exchanged
track_flags_swapped(fl, moving_piece, from_rank, from_file) ==
    CASE moving_piece = "K" -> [fl EXCEPT !.white_king_moved = TRUE]
      [] moving_piece = "k" -> [fl EXCEPT !.black_king_moved = TRUE]
      [] moving_piece = "R" /\ from_rank = 7 /\ from_file = 7 ->
            [fl EXCEPT !.white_rook_a_moved = TRUE]
      [] moving_piece = "R" /\ from_rank = 7 /\ from_file = 0 ->
            [fl EXCEPT !.white_rook_h_moved = TRUE]
      [] moving_piece = "r" /\ from_rank = 0 /\ from_file = 7 ->
            [fl EXCEPT !.black_rook_a_moved = TRUE]
      [] moving_piece = "r" /\ from_rank = 0 /\ from_file = 0 ->
            [fl EXCEPT !.black_rook_h_moved = TRUE]
      [] OTHER -> fl

\* "Track king and rook moves for castling rights"
track_flags(fl, moving_piece, from_rank, from_file) ==
    CASE moving_piece = "K" -> [fl EXCEPT !.white_king_moved = TRUE]
      [] moving_piece = "k" -> [fl EXCEPT !.black_king_moved = TRUE]
      [] moving_piece = "R" /\ from_rank = 7 /\ from_file = 0 ->
            [fl EXCEPT !.white_rook_a_moved = TRUE]
      [] moving_piece = "R" /\ from_rank = 7 /\ from_file = 7 ->
            [fl EXCEPT !.white_rook_h_moved = TRUE]
      [] moving_piece = "r" /\ from_rank = 0 /\ from_file = 0 ->
            [fl EXCEPT !.black_rook_a_moved = TRUE]
      [] moving_piece = "r" /\ from_rank = 0 /\ from_file = 7 ->
            [fl EXCEPT !.black_rook_h_moved = TRUE]
      [] OTHER -> fl

\* the normal-move branch: the origin is cleared first, then the
\* destination is written (IndexError when it is outside the lists)
normal_move(b, fl, parsed) ==
    LET moving_piece == b[parsed.from_rank][parsed.from_file]
        b1 == put(b, parsed.from_rank, parsed.from_file, ".")
    IN  IF ~(IndexOk(parsed.to_rank) /\ IndexOk(parsed.to_file))
        THEN Result("IndexError", b1, fl)
        ELSE Result("True", put(b1, parsed.to_rank, parsed.to_file, moving_piece),
                    track_flags(fl, moving_piece, parsed.from_rank, parsed.from_file))

\* make_move: the castling tests look at the text with only + and # removed
make_move(b, fl, move, is_white_turn) ==
    CHOOSE result \in
        {IF parsed.tag = "IndexError" THEN Result("IndexError", b, fl)
         ELSE IF parsed.tag = "None" THEN parse_failed(b, fl)
         ELSE IF replace(replace(move, "+"), "#") \in KingsideTokens
              THEN castle_kingside(b, fl, is_white_turn)
         ELSE IF replace(replace(move, "+"), "#") \in QueensideTokens
              THEN castle_queenside(b, fl, is_white_turn)
         ELSE normal_move(b, fl, parsed) :
            parsed \in {parse_move(b, replace(replace(move, "+"), "#"),
                                   is_white_turn)}} : TRUE

\* variant: the lookup takes the piece it finds off the board
parse_call_lifts_piece(b, fl, move, is_white_turn) ==
    LET p == parse_move(b, move, is_white_turn)
    IN  Result(p.tag,
               IF p.tag = "ok" THEN put(b, p.from_rank, p.from_file, ".") ELSE b,
               fl)

\* a direct call of parse_move: what it returns (or raises) and the
\* object's fields afterwards; neither parse_move nor find_piece assigns
\* to a field
parse_call(b, fl, move, is_white_turn) ==
    Result(parse_move(b, move, is_white_turn).tag, b, fl)

\* variant: reset() without "self.white_rook_a_moved = False"; the flag
\* keeps its value
reset_keeps_flag(b, fl) ==
    Result("None", StartBoard,
           [StartFlags EXCEPT !.white_rook_a_moved = fl.white_rook_a_moved])

\* reset()
reset(b, fl) == Result("None", StartBoard, StartFlags)

\* --------------------------------------------------------- state machine
\* move texts handed to make_move
MoveTexts ==
    {
      <<"e", "4">>, <<"e", "3">>, <<"d", "5">>, <<"e", "5">>,
      <<"a", "4">>, <<"h", "5">>, <<"e", "x", "d", "5">>, <<"a", "x", "h", "3">>,
      <<"a", "e", "4">>, <<"N", "f", "3">>, <<"N", "c", "6">>, <<"B", "c", "4">>,
      <<"R", "a", "3">>, <<"R", "h", "6">>, <<"Q", "e", "2">>, <<"K", "e", "2">>,
      <<"K", "e", "7">>, <<"O", "-", "O">>, <<"O", "-", "O", "-", "O">>, <<"0", "-", "0">>,
      <<"O", "-", "O", "!">>, <<"O", "-", "O", "+">>, <<"e", "4", "!">>, <<"N", "f", "3", "+">>,
      <<>>, <<"+">>, <<"!">>, <<"e">>,
      <<"N">>, <<"x">>, <<"N", "x">>, <<"e", "e">>,
      <<"Z", "e", "4">>, <<"e", "9">>, <<"N", "e", "9">>, <<"K", "e", "0">>,
      <<"i", "4">>, <<"N", "e", "7">>, <<"N", "c", "e", "7">>
    }

VARIABLES board, white_king_moved, black_king_moved, white_rook_a_moved, white_rook_h_moved, black_rook_a_moved, black_rook_h_moved, calls, last

\* conv: the last square conversion call; parsed: what the last direct
\* parse_move call returned; the other four are OpeningTrainer's fields and
\* the record of the last call of one of its methods
VARIABLES conv, parsed, opening_tree, current_position, player_color, tlast

\* where main() is: "off" (not started), "loop" (in the game loop) or
\* "ended" (returned)
VARIABLES session

vars == <<board, white_king_moved, black_king_moved, white_rook_a_moved, white_rook_h_moved, black_rook_a_moved, black_rook_h_moved, calls, last, conv, parsed, opening_tree, current_position, player_color, tlast, session>>

\* the ChessBoard object's fields and the record of the last call on it
board_vars == <<board, white_king_moved, black_king_moved, white_rook_a_moved, white_rook_h_moved, black_rook_a_moved, black_rook_h_moved, last>>

\* the OpeningTrainer object's own fields and the record of its last call
trainer_vars == <<opening_tree, current_position, player_color, tlast>>

\* no conversion call made yet
NoConversion == [op |-> "none", tag |-> "ok", square |-> <<>>, rank |-> 0, file |-> 0]

\* self.opening_tree = {}
EmptyTree == [key \in {} |-> {}]

\* no trainer method called yet
NoTrainerCall ==
    [op |-> "init", move |-> <<>>, ret |-> "None", msg |-> "", called |-> FALSE,
     asked |-> FALSE, prev_position |-> <<>>,
     prev_board |-> StartBoard, prev_flags |-> StartFlags]

\* the six flags of the object as one record
Flags ==
    [white_king_moved |-> white_king_moved, black_king_moved |-> black_king_moved,
     white_rook_a_moved |-> white_rook_a_moved, white_rook_h_moved |-> white_rook_h_moved,
     black_rook_a_moved |-> black_rook_a_moved, black_rook_h_moved |-> black_rook_h_moved]

\* the object's fields after a call, and the record of that call: which
\* method, its arguments, what it returned and the fields before it
Store(op, move, is_white_turn, out) ==
    /\ board' = out.board
    /\ white_king_moved' = out.flags.white_king_moved
    /\ black_king_moved' = out.flags.black_king_moved
    /\ white_rook_a_moved' = out.flags.white_rook_a_moved
    /\ white_rook_h_moved' = out.flags.white_rook_h_moved
    /\ black_rook_a_moved' = out.flags.black_rook_a_moved
    /\ black_rook_h_moved' = out.flags.black_rook_h_moved
    /\ last' = [op |-> op, move |-> move, is_white_turn |-> is_white_turn,
                res |-> out.res, prev_board |-> board, prev_flags |-> Flags]

\* ChessBoard(): __init__ calls reset()
Init ==
    /\ board = StartBoard
    /\ white_king_moved = StartFlags.white_king_moved
    /\ black_king_moved = StartFlags.black_king_moved
    /\ white_rook_a_moved = StartFlags.white_rook_a_moved
    /\ white_rook_h_moved = StartFlags.white_rook_h_moved
    /\ black_rook_a_moved = StartFlags.black_rook_a_moved
    /\ black_rook_h_moved = StartFlags.black_rook_h_moved
    /\ calls = 0
    /\ last = [op |-> "init", move |-> <<>>, is_white_turn |-> TRUE,
               res |-> "None", prev_board |-> StartBoard, prev_flags |-> StartFlags]
    /\ conv = NoConversion
    /\ parsed = ParseNone
    /\ opening_tree = EmptyTree
    /\ current_position = <<>>
    /\ player_color = "white"
    /\ tlast = NoTrainerCall
    /\ session = "off"

\* an IndexError raised by make_move is caught nowhere in the program:
\* it ends the run, no further call is made on the object
Running == last.res # "IndexError"

\* one call board.make_move(move, is_white_turn)
MakeMove ==
    /\ Running
    /\ calls < MaxCalls
    /\ \E move \in MoveTexts, is_white_turn \in BOOLEAN :
          Store("make_move", move, is_white_turn,
                make_move(board, Flags, move, is_white_turn))
    /\ calls' = calls + 1
    /\ UNCHANGED <<conv, parsed, trainer_vars, session>>

\* one call board.reset()
Reset ==
    /\ Running
    /\ Store("reset", <<>>, TRUE, reset(board, Flags))
    /\ UNCHANGED <<calls, conv, parsed, trainer_vars, session>>

Next == MakeMove \/ Reset

Spec == Init /\ [][Next]_vars

\* -------------------------------------------------------- OpeningTrainer
\* one entry ['e4', 1.0] of a node's move list; weights in tenths
Opt(move, weight) == [move |-> move, weight |-> weight]

\* one node of the tree
Node(player, moves) == [player |-> player, moves |-> moves]

\* the 'tree' of create_example_opening(), keyed by the position key
ExampleTree ==
    (<<>> :> Node(FALSE, <<Opt(<<"e", "4">>, 10)>>))
    @@ (<<"e", "4">> :>
          Node(TRUE, <<Opt(<<"e", "6">>, 6), Opt(<<"e", "5">>, 4)>>))
    @@ (<<"e", "4", "-", "e", "6">> :> Node(FALSE, <<Opt(<<"d", "4">>, 10)>>))
    @@ (<<"e", "4", "-", "e", "5">> :> Node(FALSE, <<Opt(<<"N", "f", "3">>, 10)>>))
    @@ (<<"e", "4", "-", "e", "6", "-", "d", "4">> :>
          Node(TRUE, <<Opt(<<"d", "5">>, 7), Opt(<<"c", "5">>, 3)>>))
    @@ (<<"e", "4", "-", "e", "5", "-", "N", "f", "3">> :>
          Node(TRUE, <<Opt(<<"N", "c", "6">>, 6), Opt(<<"N", "f", "6">>, 4)>>))
    @@ (<<"e", "4", "-", "e", "6", "-", "d", "4", "-", "d", "5">> :>
          Node(FALSE, <<Opt(<<"N", "c", "3">>, 5), Opt(<<"N", "d", "2">>, 5)>>))
    @@ (<<"e", "4", "-", "e", "6", "-", "d", "4", "-", "c", "5">> :>
          Node(FALSE, <<Opt(<<"N", "f", "3">>, 10)>>))
    @@ (<<"e", "4", "-", "e", "5", "-", "N", "f", "3", "-", "N", "c", "6">> :>
          Node(FALSE, <<Opt(<<"B", "b", "5">>, 7), Opt(<<"B", "c", "4">>, 3)>>))
    @@ (<<"e", "4", "-", "e", "5", "-", "N", "f", "3", "-", "N", "f", "6">> :>
          Node(FALSE, <<Opt(<<"N", "x", "e", "5">>, 10)>>))
    @@ (<<"e", "4", "-", "e", "6", "-", "d", "4", "-", "d", "5", "-", "N", "c", "3">> :>
          Node(TRUE, <<Opt(<<"N", "f", "6">>, 8), Opt(<<"B", "b", "4">>, 2)>>))
    @@ (<<"e", "4", "-", "e", "6", "-", "d", "4", "-", "d", "5", "-", "N", "d", "2">> :>
          Node(TRUE, <<Opt(<<"N", "f", "6">>, 9), Opt(<<"c", "5">>, 1)>>))
    @@ (<<"e", "4", "-", "e", "5", "-", "N", "f", "3", "-", "N", "c", "6", "-", "B", "b", "5">> :>
          Node(TRUE, <<Opt(<<"a", "6">>, 6), Opt(<<"N", "f", "6">>, 3),
                       Opt(<<"f", "5">>, 1)>>))
    @@ (<<"e", "4", "-", "e", "5", "-", "N", "f", "3", "-", "N", "c", "6", "-", "B", "c", "4">> :>
          Node(TRUE, <<Opt(<<"B", "c", "5">>, 5), Opt(<<"N", "f", "6">>, 5)>>))

\* create_example_opening()
create_example_opening == [start |-> "white", tree |-> ExampleTree]

\* the openings handed to build_simple_tree: the example, and the same
\* tree with 'start': 'black'
Openings == {create_example_opening, [start |-> "black", tree |-> ExampleTree]}

\* '-'.join(current_position)
RECURSIVE get_position_key(_)
get_position_key(position) ==
    IF position = <<>> THEN <<>>
    ELSE IF Len(position) = 1 THEN position[1]
    ELSE position[1] \o <<"-">> \o get_position_key(Tail(position))

\* is_player_turn()
is_player_turn(tree, position) ==
    /\ get_position_key(position) \in DOMAIN tree
    /\ tree[get_position_key(position)].player

\* get_current_options(); the result is only ever tested with `not`, which
\* None and the empty list both pass, so both are the empty sequence here
get_current_options(tree, position) ==
    IF get_position_key(position) \in DOMAIN tree
    THEN tree[get_position_key(position)].moves
    ELSE <<>>

\* variant: every position is taken to have more moves
has_more_moves_everywhere(tree, position) == TRUE

\* has_more_moves()
has_more_moves(tree, position) ==
    /\ get_position_key(position) \in DOMAIN tree
    /\ Len(tree[get_position_key(position)].moves) > 0

\* what a trainer method returns and leaves behind: its return value, the
\* message, current_position, and the make_move call it made on its board
\* (called, with which text and side, with what outcome)
TResult(ret, msg, position, called, move, is_white_turn, out) ==
    [ret |-> ret, msg |-> msg, position |-> position, called |-> called,
     move |-> move, is_white_turn |-> is_white_turn, out |-> out]

\* variant: the side is taken from the other parity of the ply count
update_board_odd_is_white(position, b, fl, move, ret, msg) ==
    LET is_white_turn == Len(position) % 2 = 1
        out == make_move(b, fl, move, is_white_turn)
    IN  IF out.res = "IndexError"
        THEN TResult("IndexError", "", position, TRUE, move, is_white_turn, out)
        ELSE TResult(ret, msg, Append(position, move), TRUE, move, is_white_turn, out)

\* variant: the move is recorded without being played on the board
update_board_keeps_board(position, b, fl, move, ret, msg) ==
    TResult(ret, msg, Append(position, move), FALSE, move,
            Len(position) % 2 = 0, Result("None", b, fl))

\* the "Update board" lines shared by make_computer_move and
\* check_player_move: the side from the ply count, make_move (a False
\* return only prints a warning), then the append; an exception raised by
\* make_move leaves before the append
update_board(position, b, fl, move, ret, msg) ==
    LET is_white_turn == Len(position) % 2 = 0
        out == make_move(b, fl, move, is_white_turn)
    IN  IF out.res = "IndexError"
        THEN TResult("IndexError", "", position, TRUE, move, is_white_turn, out)
        ELSE TResult(ret, msg, Append(position, move), TRUE, move, is_white_turn, out)

\* a return that touches nothing
Untouched(ret, msg, position, b, fl) ==
    TResult(ret, msg, position, FALSE, <<>>, TRUE, Result("None", b, fl))

\* the moves random.choices can select: those of positive weight
Selectable(options) ==
    {options[i].move : i \in {j \in 1..Len(options) : options[j].weight > 0}}

\* make_computer_move() once selected_move is drawn
make_computer_move(tree, position, b, fl, selected_move) ==
    IF get_current_options(tree, position) = <<>>
    THEN Untouched("None", "", position, b, fl)
    ELSE update_board(position, b, fl, selected_move, "move", "")

\* variant: the move is recorded before it is looked up among the options
check_player_move_appends_first(tree, position, b, fl, move) ==
    LET m == strip(move)
        options == get_current_options(tree, position)
        valid_moves == {options[i].move : i \in 1..Len(options)}
    IN  IF m = <<>> THEN Untouched("False", "Empty move", position, b, fl)
        ELSE IF options = <<>>
             THEN Untouched("False", "No more moves in this line!", Append(position, m), b, fl)
        ELSE IF m \in valid_moves
             THEN update_board(position, b, fl, m, "True", "Correct!")
        ELSE Untouched("False", "Incorrect!", Append(position, m), b, fl)

\* check_player_move(move)
check_player_move(tree, position, b, fl, move) ==
    LET m == strip(move)
        options == get_current_options(tree, position)
        valid_moves == {options[i].move : i \in 1..Len(options)}
    IN  IF m = <<>> THEN Untouched("False", "Empty move", position, b, fl)
        ELSE IF options = <<>>
             THEN Untouched("False", "No more moves in this line!", position, b, fl)
        ELSE IF m \in valid_moves
             THEN update_board(position, b, fl, m, "True", "Correct!")
        ELSE Untouched("False", "Incorrect!", position, b, fl)

\* what the player types: every move of the example tree, a padded one,
\* a move of no node, the empty line and a blank line
PlayerTexts ==
    UNION {Selectable(ExampleTree[k].moves) : k \in DOMAIN ExampleTree}
    \cup {<<" ", "e", "5", " ">>, <<"Q", "h", "5">>, <<>>, <<" ">>}

\* the trainer's fields after a call of one of its methods, and the record
\* of that call
TStore(op, move, r) ==
    /\ current_position' = r.position
    /\ IF r.called
       THEN Store("make_move", r.move, r.is_white_turn, r.out)
       ELSE UNCHANGED board_vars
    /\ tlast' = [op |-> op, move |-> move, ret |-> r.ret, msg |-> r.msg,
                 called |-> r.called,
                 asked |-> is_player_turn(opening_tree, current_position),
                 prev_position |-> current_position,
                 prev_board |-> board, prev_flags |-> Flags]

\* trainer.build_simple_tree(lines), called once before the game loop
BuildSimpleTree ==
    /\ tlast.op = "init"
    /\ \E lines \in Openings :
          /\ player_color' = IF lines.start = "white" THEN "white" ELSE "black"
          /\ opening_tree' = lines.tree
    /\ TStore("build_simple_tree", <<>>,
              Untouched("None", "", current_position, board, Flags))
    /\ UNCHANGED <<calls, conv, parsed, session>>

\* trainer.make_computer_move()
MakeComputerMove ==
    /\ Running
    /\ LET options == get_current_options(opening_tree, current_position)
       IN  IF options = <<>>
           THEN TStore("make_computer_move", <<>>,
                       make_computer_move(opening_tree, current_position,
                                          board, Flags, <<>>))
           ELSE \E selected_move \in Selectable(options) :
                   TStore("make_computer_move", selected_move,
                          make_computer_move(opening_tree, current_position,
                                             board, Flags, selected_move))
    /\ UNCHANGED <<calls, conv, parsed, opening_tree, player_color, session>>

\* trainer.check_player_move(move)
CheckPlayerMove ==
    /\ Running
    /\ \E move \in PlayerTexts :
          TStore("check_player_move", move,
                 check_player_move(opening_tree, current_position, board, Flags, move))
    /\ UNCHANGED <<calls, conv, parsed, opening_tree, player_color, session>>

\* trainer.reset()
ResetTrainer ==
    /\ Running
    /\ current_position' = <<>>
    /\ Store("reset", <<>>, TRUE, reset(board, Flags))
    /\ tlast' = [op |-> "reset", move |-> <<>>, ret |-> "None", msg |-> "",
                 called |-> FALSE,
                 asked |-> is_player_turn(opening_tree, current_position),
                 prev_position |-> current_position,
                 prev_board |-> board, prev_flags |-> Flags]
    /\ UNCHANGED <<calls, conv, parsed, opening_tree, player_color, session>>

NextTrainer == BuildSimpleTree \/ MakeComputerMove \/ CheckPlayerMove \/ ResetTrainer

SpecTrainer == Init /\ [][NextTrainer]_vars

\* ------------------------------------------------- main(): the game loop
\* trainer.reset() called by the loop; msg is what the loop printed before
\* it, if anything
LoopReset(msg) ==
    /\ current_position' = <<>>
    /\ Store("reset", <<>>, TRUE, reset(board, Flags))
    /\ tlast' = [op |-> "reset", move |-> <<>>, ret |-> "None", msg |-> msg,
                 called |-> FALSE,
                 asked |-> is_player_turn(opening_tree, current_position),
                 prev_position |-> current_position,
                 prev_board |-> board, prev_flags |-> Flags]

\* the menu: every choice ends in build_simple_tree, then the loop starts
MainStart ==
    /\ session = "off" /\ tlast.op = "init"
    /\ \E lines \in Openings :
          /\ player_color' = IF lines.start = "white" THEN "white" ELSE "black"
          /\ opening_tree' = lines.tree
    /\ TStore("build_simple_tree", <<>>,
              Untouched("None", "", current_position, board, Flags))
    /\ session' = "loop"
    /\ UNCHANGED <<calls, conv, parsed>>

\* loop iteration at the end of a line: start over, or leave
MainEndOfLine ==
    /\ session = "loop" /\ Running
    /\ ~has_more_moves(opening_tree, current_position)
    /\ \E retry \in BOOLEAN :
          IF retry
          THEN LoopReset("") /\ UNCHANGED session
          ELSE session' = "ended" /\ UNCHANGED <<board_vars, current_position, tlast>>
    /\ UNCHANGED <<calls, conv, parsed, opening_tree, player_color>>

\* the commands the loop tests for before it takes the line as a move
Commands == {"quit", "reset", "line", "board"}

\* loop iteration on the player's turn: a command, or a move handed to
\* check_player_move and, when it is rejected, the answer to "Try again?"
MainPlayerTurn ==
    /\ session = "loop" /\ Running
    /\ has_more_moves(opening_tree, current_position)
    /\ is_player_turn(opening_tree, current_position)
    /\ \/ \E command \in Commands :
             CASE command = "quit" ->
                    session' = "ended" /\ UNCHANGED <<board_vars, current_position, tlast>>
               [] command = "reset" -> LoopReset("") /\ UNCHANGED session
               [] OTHER ->
                    /\ tlast' = [op |-> "show", move |-> <<>>, ret |-> "None",
                                 msg |-> "", called |-> FALSE,
                                 asked |-> TRUE, prev_position |-> current_position,
                                 prev_board |-> board, prev_flags |-> Flags]
                    /\ UNCHANGED <<board_vars, current_position, session>>
       \/ \E move \in PlayerTexts, retry \in BOOLEAN :
             LET r == check_player_move(opening_tree, current_position,
                                        board, Flags, strip(move))
             IN  /\ IF r.ret = "False" /\ ~retry
                    THEN LoopReset("Starting over...")
                    ELSE TStore("check_player_move", strip(move), r)
                 /\ UNCHANGED session
    /\ UNCHANGED <<calls, conv, parsed, opening_tree, player_color>>

\* loop iteration on the computer's turn
MainComputerTurn ==
    /\ session = "loop" /\ Running
    /\ has_more_moves(opening_tree, current_position)
    /\ ~is_player_turn(opening_tree, current_position)
    /\ LET options == get_current_options(opening_tree, current_position)
       IN  IF options = <<>>
           THEN LoopReset("No more moves available in this line!")
           ELSE \E selected_move \in Selectable(options) :
                   TStore("make_computer_move", selected_move,
                          make_computer_move(opening_tree, current_position,
                                             board, Flags, selected_move))
    /\ UNCHANGED <<calls, conv, parsed, opening_tree, player_color, session>>

NextSession == MainStart \/ MainEndOfLine \/ MainPlayerTurn \/ MainComputerTurn

\* the loop is sequential and blocks only in input(): every iteration
\* runs once the player has answered
SpecSession == Init /\ [][NextSession]_vars /\ WF_vars(NextSession)

\* --------------------------------------- square conversions on their own
\* the 64 square texts a1..h8
Squares ==
    {<<l, d>> : l \in {"a", "b", "c", "d", "e", "f", "g", "h"},
                d \in {"1", "2", "3", "4", "5", "6", "7", "8"}}

\* one call board.coords_to_square(rank, file)
ToSquare ==
    /\ \E rank \in Coords, file \in Coords :
          conv' = [op |-> "coords_to_square", tag |-> "ok",
                   square |-> coords_to_square(rank, file),
                   rank |-> rank, file |-> file]
    /\ UNCHANGED <<board_vars, calls, parsed, trainer_vars, session>>

\* one call board.square_to_coords(square)
ToCoords ==
    /\ \E square \in Squares :
          LET c == square_to_coords(square)
          IN  conv' = [op |-> "square_to_coords", tag |-> c.tag,
                       square |-> square, rank |-> c.rank, file |-> c.file]
    /\ UNCHANGED <<board_vars, calls, parsed, trainer_vars, session>>

NextSquares == ToSquare \/ ToCoords

SpecSquares == Init /\ [][NextSquares]_vars

\* ------------------------------------------- parse_move called directly
\* the texts looked up directly: pawn, piece, ambiguous and disambiguated
\* knight, capture, castling, a square off the board, the empty text
ParseTexts ==
    {<<"e", "4">>, <<"N", "f", "3">>, <<"N", "e", "7">>, <<"N", "c", "e", "7">>,
     <<"e", "x", "d", "5">>, <<"O", "-", "O">>, <<"e", "9">>, <<>>}

\* one call board.parse_move(move, is_white_turn)
ParseMove ==
    /\ Running
    /\ calls < MaxCalls
    /\ \E move \in ParseTexts, is_white_turn \in BOOLEAN :
          /\ Store("parse_move", move, is_white_turn,
                   parse_call(board, Flags, move, is_white_turn))
          /\ parsed' = parse_move(board, move, is_white_turn)
    /\ calls' = calls + 1
    /\ UNCHANGED <<conv, trainer_vars, session>>

NextParse == MakeMove \/ ParseMove

SpecParse == Init /\ [][NextParse]_vars

\* ----------------------------------------------------------------- claims
\* the last call was make_move
Called == last.op = "make_move"

\* the text make_move hands to parse_move, and what parse_move returned
SeenText == replace(replace(last.move, "+"), "#")
SeenParse == parse_move(last.prev_board, SeenText, last.is_white_turn)

\* the fields after the last call, as one result
Now == Result(last.res, board, Flags)

\* C1: whenever make_move returns False, the board and the six
\* castling-rights flags are what they were before the call.
C1_FailedMoveChangesNothing ==
    (Called /\ last.res = "False") =>
        (board = last.prev_board /\ Flags = last.prev_flags)

\* a move that fails on a board that has already been played on
C1_Witness ==
    /\ Called /\ last.res = "False"
    /\ last.prev_board # StartBoard
    /\ last.prev_flags # StartFlags
    /\ Len(last.move) >= 2

\* a text without its trailing annotation characters
RECURSIVE StripAnnotations(_)
StripAnnotations(s) ==
    IF s # <<>> /\ s[Len(s)] \in {"+", "#", "!", "?"}
    THEN StripAnnotations(SubSeq(s, 1, Len(s) - 1))
    ELSE s

\* C2: make_move on a text followed by annotation characters returns the
\* same value and leaves the same board and flags as make_move on the text
\* without them.
C2_AnnotationsDoNotMatter ==
    Called =>
        Now = make_move(last.prev_board, last.prev_flags,
                        StripAnnotations(last.move), last.is_white_turn)

\* the characters left after + # ! ? and x are removed
Significant(s) ==
    SelectSeq(s, LAMBDA c : c \notin {"+", "#", "!", "?", "x"})

\* C3: a text with fewer than two characters left after + # ! ? and x are
\* removed fails as a return value: parse_move returns None, make_move
\* returns False, nothing is raised.
C3_ShortTextFails ==
    (Called /\ Len(Significant(last.move)) < 2) =>
        (last.res = "False" /\ SeenParse.tag = "None")

\* the last two significant characters are a file letter and a rank digit
ValidSquareToken(s) ==
    /\ Len(s) >= 2
    /\ lower(s[Len(s) - 1]) \in {"a", "b", "c", "d", "e", "f", "g", "h"}
    /\ s[Len(s)] \in {"1", "2", "3", "4", "5", "6", "7", "8"}

\* the text is not one of the castling tokens
NotCastlingText == Cleaned(last.move) \notin KingsideTokens \cup QueensideTokens

\* C4: when the last two characters of the text (annotations and x
\* removed) are not a file letter a-h and a rank digit 1-8, parse_move
\* returns None without raising and make_move returns False.
C4_InvalidSquareFails ==
    (/\ Called /\ NotCastlingText
     /\ Len(Significant(last.move)) >= 2
     /\ ~ValidSquareToken(Significant(last.move))) =>
        (last.res = "False" /\ SeenParse.tag = "None")

\* a move was resolved by the origin lookup (not by a castling return)
ResolvedNormal == Called /\ SeenParse.tag = "ok" /\ SeenParse.castle = "no"

Abs(n) == IF n < 0 THEN -n ELSE n

\* a valid displacement for the piece type, origin to destination
GeometryOk(type, is_white_turn, is_capture, fr, ff, tr, tf) ==
    LET dr == tr - fr
        df == tf - ff
        fwd == IF is_white_turn THEN -1 ELSE 1
        home == IF is_white_turn THEN 6 ELSE 1
        diagonal == Abs(dr) = Abs(df) /\ dr # 0
        orthogonal == (dr = 0) # (df = 0)
    IN  CASE type = "N" -> {Abs(dr), Abs(df)} = {1, 2}
          [] type = "K" -> Abs(dr) <= 1 /\ Abs(df) <= 1 /\ <<dr, df>> # <<0, 0>>
          [] type = "B" -> diagonal
          [] type = "R" -> orthogonal
          [] type = "Q" -> diagonal \/ orthogonal
          [] type = "P" -> \/ dr = fwd /\ df = 0
                           \/ dr = 2 * fwd /\ df = 0 /\ fr = home
                           \/ dr = fwd /\ Abs(df) = 1 /\ is_capture
          [] OTHER -> FALSE

\* the origin agrees with every file letter and rank digit written before
\* the destination square
HintsHonoured(disambig, fr, ff) ==
    \A i \in 1..Len(disambig) :
        /\ (lower(disambig[i]) \in {"a", "b", "c", "d", "e", "f", "g", "h"}) =>
               ff = ord(lower(disambig[i])) - ord("a")
        /\ isdigit(disambig[i]) => fr = 8 - int(disambig[i])

\* C5: whenever a non-castling move is resolved, the origin cell holds a
\* piece of the stated type and of the mover's colour, the origin agrees
\* with every origin-file and origin-rank hint of the text, and origin to
\* destination is a valid displacement for that piece type.
C5_ResolvedOriginIsSound ==
    ResolvedNormal =>
        LET p == SeenParse
            stated == PieceChar(SeenText)
        IN  /\ last.prev_board[p.from_rank][p.from_file] =
                   (IF last.is_white_turn THEN upper(stated) ELSE lower(stated))
            /\ HintsHonoured(Disambig(SeenText), p.from_rank, p.from_file)
            /\ GeometryOk(upper(stated), last.is_white_turn, IsCapture(SeenText),
                          p.from_rank, p.from_file, p.to_rank, p.to_file)

\* C6: after every successful non-castling make_move the destination cell
\* holds the piece that stood on the origin cell, the origin cell is empty
\* and the other 62 cells are unchanged.
C6_NormalMoveFrame ==
    (ResolvedNormal /\ last.res = "True") =>
        LET p == SeenParse
        IN  /\ p.to_rank \in Coords /\ p.to_file \in Coords
            /\ \A r \in Coords, f \in Coords :
                  board[r][f] =
                     IF <<r, f>> = <<p.to_rank, p.to_file>>
                     THEN last.prev_board[p.from_rank][p.from_file]
                     ELSE IF <<r, f>> = <<p.from_rank, p.from_file>> THEN "."
                     ELSE last.prev_board[r][f]

\* the board after castling, written out cell by cell: the king's and the
\* rook's files of the home rank are emptied, the king and the rook are
\* put on their new files, every other cell is as before
CastledBoard(before, is_white_turn, king_to, rook_from, rook_to) ==
    [r \in Coords |-> [f \in Coords |->
        IF r # (IF is_white_turn THEN 7 ELSE 0) THEN before[r][f]
        ELSE IF f = king_to THEN (IF is_white_turn THEN "K" ELSE "k")
        ELSE IF f = rook_to THEN (IF is_white_turn THEN "R" ELSE "r")
        ELSE IF f = 4 \/ f = rook_from THEN "."
        ELSE before[r][f]]]

\* the flags with the mover's king-moved flag set and nothing else changed
KingFlagSet(before, is_white_turn) ==
    [white_king_moved |-> (before.white_king_moved \/ is_white_turn),
     black_king_moved |-> (before.black_king_moved \/ ~is_white_turn),
     white_rook_a_moved |-> before.white_rook_a_moved,
     white_rook_h_moved |-> before.white_rook_h_moved,
     black_rook_a_moved |-> before.black_rook_a_moved,
     black_rook_h_moved |-> before.black_rook_h_moved]

\* C7: make_move with a kingside castling token returns True, empties
\* files 4 and 7 of the mover's home rank, puts the king on file 6 and the
\* rook on file 5; with a queenside token it empties files 4 and 0 and puts
\* the king on file 2 and the rook on file 3; it sets the mover's
\* king-moved flag and leaves every other cell and flag unchanged.
C7_CastlingPlacesKingAndRook ==
    /\ (Called /\ last.move \in KingsideTokens) =>
          /\ last.res = "True"
          /\ board = CastledBoard(last.prev_board, last.is_white_turn, 6, 7, 5)
          /\ Flags = KingFlagSet(last.prev_flags, last.is_white_turn)
    /\ (Called /\ last.move \in QueensideTokens) =>
          /\ last.res = "True"
          /\ board = CastledBoard(last.prev_board, last.is_white_turn, 2, 0, 3)
          /\ Flags = KingFlagSet(last.prev_flags, last.is_white_turn)

\* White castles kingside with king and h-rook on their home squares and
\* unmoved, on a board that has been played on
C7_Witness ==
    /\ Called /\ last.move \in KingsideTokens /\ last.is_white_turn
    /\ last.prev_board # StartBoard
    /\ last.prev_board[7][4] = "K" /\ last.prev_board[7][7] = "R"
    /\ ~last.prev_flags.white_king_moved /\ ~last.prev_flags.white_rook_h_moved
    /\ board[7][6] = "K" /\ board[7][5] = "R"

\* the standard starting position, written out
StandardPosition(b) ==
    /\ \A f \in Coords :
          /\ b[0][f] = <<"r", "n", "b", "q", "k", "b", "n", "r">>[f + 1]
          /\ b[1][f] = "p"
          /\ b[6][f] = "P"
          /\ b[7][f] = <<"R", "N", "B", "Q", "K", "B", "N", "R">>[f + 1]
    /\ \A r \in 2..5, f \in Coords : b[r][f] = "."

\* C8: after any sequence of make_move calls, reset() leaves the standard
\* starting position and all six castling-rights flags false.
C8_ResetRestoresStart ==
    (last.op = "reset") =>
        /\ StandardPosition(board)
        /\ ~white_king_moved /\ ~black_king_moved
        /\ ~white_rook_a_moved /\ ~white_rook_h_moved
        /\ ~black_rook_a_moved /\ ~black_rook_h_moved

\* reset() called on a played-on board with the white a-rook flag and a
\* king flag set
C8_Witness ==
    /\ last.op = "reset"
    /\ ~StandardPosition(last.prev_board)
    /\ last.prev_flags.white_rook_a_moved
    /\ last.prev_flags.black_king_moved

\* C9: across make_move calls, each of the six flags, once true, is never
\* false again.
C9_FlagsMonotonic ==
    [][(last'.op = "make_move") =>
         /\ white_king_moved => white_king_moved'
         /\ black_king_moved => black_king_moved'
         /\ white_rook_a_moved => white_rook_a_moved'
         /\ white_rook_h_moved => white_rook_h_moved'
         /\ black_rook_a_moved => black_rook_a_moved'
         /\ black_rook_h_moved => black_rook_h_moved']_vars

\* a successful move of another piece after the white king flag was set
C9_Witness ==
    /\ Called /\ last.res = "True"
    /\ last.prev_flags.white_king_moved /\ white_king_moved
    /\ SeenParse.piece # "K"
    /\ board # last.prev_board

\* the last call applied a move: through a castling branch of make_move,
\* or through its normal-move branch
Applied == Called /\ last.res = "True"
AppliedKingside == Applied /\ SeenText \in KingsideTokens
AppliedQueenside == Applied /\ SeenText \in QueensideTokens
AppliedNormal == Applied /\ ~AppliedKingside /\ ~AppliedQueenside

\* the piece a normal move took from its origin, and that origin
MovedPiece == last.prev_board[SeenParse.from_rank][SeenParse.from_file]
MovedFrom == <<SeenParse.from_rank, SeenParse.from_file>>

\* a flag that was false before the call and is true after it
NewlySet(flag) == ~last.prev_flags[flag] /\ Flags[flag]

\* after a normal king move, or a normal rook move from a home corner, the
\* flag of that piece is true
NormalMoveSetsFlag ==
    AppliedNormal =>
        /\ (MovedPiece = "K") => white_king_moved
        /\ (MovedPiece = "k") => black_king_moved
        /\ (MovedPiece = "R" /\ MovedFrom = <<7, 0>>) => white_rook_a_moved
        /\ (MovedPiece = "R" /\ MovedFrom = <<7, 7>>) => white_rook_h_moved
        /\ (MovedPiece = "r" /\ MovedFrom = <<0, 0>>) => black_rook_a_moved
        /\ (MovedPiece = "r" /\ MovedFrom = <<0, 7>>) => black_rook_h_moved

\* a king flag is set only by castling of that colour or by a normal move
\* of that king from its home square; a rook flag only by a normal move of
\* a rook of that colour from that home corner
FlagSetOnlyByItsMove ==
    Called =>
        /\ NewlySet("white_king_moved") =>
              \/ (AppliedKingside \/ AppliedQueenside) /\ last.is_white_turn
              \/ AppliedNormal /\ MovedPiece = "K" /\ MovedFrom = <<7, 4>>
        /\ NewlySet("black_king_moved") =>
              \/ (AppliedKingside \/ AppliedQueenside) /\ ~last.is_white_turn
              \/ AppliedNormal /\ MovedPiece = "k" /\ MovedFrom = <<0, 4>>
        /\ NewlySet("white_rook_a_moved") =>
              AppliedNormal /\ MovedPiece = "R" /\ MovedFrom = <<7, 0>>
        /\ NewlySet("white_rook_h_moved") =>
              AppliedNormal /\ MovedPiece = "R" /\ MovedFrom = <<7, 7>>
        /\ NewlySet("black_rook_a_moved") =>
              AppliedNormal /\ MovedPiece = "r" /\ MovedFrom = <<0, 0>>
        /\ NewlySet("black_rook_h_moved") =>
              AppliedNormal /\ MovedPiece = "r" /\ MovedFrom = <<0, 7>>

\* C10 as stated: after any applied move in which a king or a rook leaves
\* its home square (a normal king move, a normal rook move from a1, h1, a8
\* or h8, or the king and the rook relocated by castling) the king-moved
\* or rook-moved flag of that piece is true, and a flag is set only by such
\* a move.
C10_AsStated ==
    /\ NormalMoveSetsFlag
    /\ AppliedKingside =>
          IF last.is_white_turn THEN white_king_moved /\ white_rook_h_moved
                                ELSE black_king_moved /\ black_rook_h_moved
    /\ AppliedQueenside =>
          IF last.is_white_turn THEN white_king_moved /\ white_rook_a_moved
                                ELSE black_king_moved /\ black_rook_a_moved
    /\ FlagSetOnlyByItsMove

\* C10 amended: after a normal king move or a normal rook move from a1,
\* h1, a8 or h8 the flag of that piece is true; after a castling move the
\* mover's king-moved flag is true and the four rook flags are what they
\* were (the relocated rook's flag is not set); a flag is set only by such
\* a move.
C10_FlagsFollowMoves ==
    /\ NormalMoveSetsFlag
    /\ (AppliedKingside \/ AppliedQueenside) =>
          /\ IF last.is_white_turn THEN white_king_moved ELSE black_king_moved
          /\ white_rook_a_moved = last.prev_flags.white_rook_a_moved
          /\ white_rook_h_moved = last.prev_flags.white_rook_h_moved
          /\ black_rook_a_moved = last.prev_flags.black_rook_a_moved
          /\ black_rook_h_moved = last.prev_flags.black_rook_h_moved
    /\ FlagSetOnlyByItsMove

\* the white a-rook leaves a1 by a normal move and its flag becomes true
C10_Witness ==
    /\ AppliedNormal
    /\ MovedPiece = "R" /\ MovedFrom = <<7, 0>>
    /\ NewlySet("white_rook_a_moved")

\* number of cells holding the given king character
KingCount(b, king) ==
    Cardinality({rf \in Coords \X Coords : b[rf[1]][rf[2]] = king})

\* C11 as stated: in every state reachable from the starting position by
\* make_move calls the board holds at most one King of each colour.
C11_AsStated ==
    KingCount(board, "K") <= 1 /\ KingCount(board, "k") <= 1

\* a castling branch was applied for the given king while that king was
\* not on file 4 of its home rank
CastledAwayFromHome(king) ==
    /\ AppliedKingside \/ AppliedQueenside
    /\ last.is_white_turn = (king = "K")
    /\ last.prev_board[IF king = "K" THEN 7 ELSE 0][4] # king

\* C11 amended: a fresh or reset board holds one King of each colour, and a
\* make_move call never adds a King, except a castling token applied while
\* the mover's king is not on file 4 of the mover's home rank, which adds
\* at most one King of the mover's colour.
C11_KingsAddedOnlyByCastling ==
    /\ (last.op \in {"init", "reset"}) =>
          (KingCount(board, "K") = 1 /\ KingCount(board, "k") = 1)
    /\ Called =>
          \A king \in {"K", "k"} :
              KingCount(board, king) <=
                  KingCount(last.prev_board, king)
                     + (IF CastledAwayFromHome(king) THEN 1 ELSE 0)

\* White castles queenside with the king on e1, on a played-on board, and
\* the board still holds one white King
C11_Witness ==
    /\ AppliedQueenside /\ last.is_white_turn
    /\ last.prev_board # StartBoard
    /\ last.prev_board[7][4] = "K"
    /\ KingCount(last.prev_board, "K") = 1
    /\ KingCount(board, "K") = 1 /\ board[7][2] = "K"

\* file letters and rank digits in board order
FileLetters == <<"a", "b", "c", "d", "e", "f", "g", "h">>
RankDigits == <<"8", "7", "6", "5", "4", "3", "2", "1">>

\* C12: square_to_coords and coords_to_square are mutual inverses over the
\* 64 squares, with file a = 0 and rank digit d mapped to 8 - d.
C12_SquareConversionsInverse ==
    /\ (conv.op = "coords_to_square") =>
          /\ conv.square = <<FileLetters[conv.file + 1], RankDigits[conv.rank + 1]>>
          /\ square_to_coords(conv.square) =
                [tag |-> "ok", rank |-> conv.rank, file |-> conv.file]
    /\ (conv.op = "square_to_coords") =>
          /\ conv.tag = "ok"
          /\ conv.rank \in Coords /\ conv.file \in Coords
          /\ FileLetters[conv.file + 1] = conv.square[1]
          /\ RankDigits[conv.rank + 1] = conv.square[2]
          /\ coords_to_square(conv.rank, conv.file) = conv.square

\* e4 converted to (4, 4)
C12_Witness ==
    /\ conv.op = "square_to_coords"
    /\ conv.square = <<"e", "4">>
    /\ conv.rank = 4 /\ conv.file = 4

SeenLookup ==
    /\ Called
    /\ Cleaned(SeenText) # <<>>
    /\ Cleaned(SeenText) \notin KingsideTokens \cup QueensideTokens
    /\ Len(MovePart(SeenText)) >= 2
    /\ isdigit(MovePart(SeenText)[Len(MovePart(SeenText))])

\* the destination of the text of the last call
SeenDest ==
    square_to_coords(SubSeq(MovePart(SeenText), Len(MovePart(SeenText)) - 1,
                            Len(MovePart(SeenText))))

\* the last call was a pawn move to a square of the board, with or without
\* the capture marker
SeenPawnMove(capture) ==
    /\ SeenLookup
    /\ PieceChar(SeenText) = "P"
    /\ IsCapture(SeenText) = capture
    /\ ValidSquareToken(MovePart(SeenText))

\* the last lookup returned exactly this origin
OriginIs(r, f) ==
    /\ SeenParse.tag = "ok"
    /\ <<SeenParse.from_rank, SeenParse.from_file>> = <<r, f>>

\* the mover's pawn, and one rank toward the mover's side
MoversPawn == IF last.is_white_turn THEN "P" ELSE "p"
Behind(r) == IF last.is_white_turn THEN r + 1 ELSE r - 1

\* C14: for a pawn move with the capture marker the origin is one rank
\* behind the destination, on the hinted file (else destination file - 1,
\* then + 1), the first such cell holding the mover's pawn; when no
\* candidate cell holds one, no origin is found.
C14_PawnCaptureOrigin ==
    SeenPawnMove(TRUE) =>
        LET r == Behind(SeenDest.rank)
            hint == FileHint(Disambig(SeenText))
            candidates == IF hint # NoHint THEN <<hint>>
                          ELSE <<SeenDest.file - 1, SeenDest.file + 1>>
            holds(i) == /\ r \in Coords /\ candidates[i] \in Coords
                        /\ last.prev_board[r][candidates[i]] = MoversPawn
            hits == {i \in 1..Len(candidates) : holds(i)}
        IN  IF hits = {} THEN SeenParse.tag = "None"
            ELSE OriginIs(r, candidates[CHOOSE i \in hits : \A j \in hits : i <= j])

\* C15: a pawn move without the capture marker to a square d of the board
\* comes from the cell behind d when that holds the mover's pawn and d is
\* empty; else from the home rank when d is on the double-push rank, the
\* home cell holds the mover's pawn and the cells between and d are empty;
\* else no origin is found. From the start White e4 is (6,4)->(4,4) and
\* leaves (6,4) empty and a white pawn on (4,4).
C15_PawnPushOrigin ==
    /\ SeenPawnMove(FALSE) =>
          LET b == last.prev_board
              d == SeenDest
              home == IF last.is_white_turn THEN 6 ELSE 1
              mid == IF last.is_white_turn THEN 5 ELSE 2
              dbl == IF last.is_white_turn THEN 4 ELSE 3
              single == /\ Behind(d.rank) \in Coords
                        /\ b[Behind(d.rank)][d.file] = MoversPawn
                        /\ b[d.rank][d.file] = "."
              double == /\ d.rank = dbl
                        /\ b[home][d.file] = MoversPawn
                        /\ b[mid][d.file] = "."
                        /\ b[d.rank][d.file] = "."
          IN  IF single THEN OriginIs(Behind(d.rank), d.file)
              ELSE IF double THEN OriginIs(home, d.file)
              ELSE SeenParse.tag = "None"
    /\ (/\ Called /\ last.prev_board = StartBoard
        /\ last.move = <<"e", "4">> /\ last.is_white_turn) =>
          /\ OriginIs(6, 4)
          /\ <<SeenParse.to_rank, SeenParse.to_file>> = <<4, 4>>
          /\ board[6][4] = "." /\ board[4][4] = "P"

\* White e4 played from the starting position
C15_Witness ==
    /\ Called /\ last.prev_board = StartBoard
    /\ last.move = <<"e", "4">> /\ last.is_white_turn
    /\ last.res = "True" /\ board[4][4] = "P"

\* the cells strictly between two cells of one line
Between(fr, ff, tr, tf) ==
    LET n == IF Abs(tr - fr) > Abs(tf - ff) THEN Abs(tr - fr) ELSE Abs(tf - ff)
        sr == IF tr > fr THEN 1 ELSE IF tr < fr THEN -1 ELSE 0
        sf == IF tf > ff THEN 1 ELSE IF tf < ff THEN -1 ELSE 0
    IN  {<<fr + k * sr, ff + k * sf>> : k \in 1..(n - 1)}

\* the last call resolved a move of a bishop, rook or queen
ResolvedSlider == ResolvedNormal /\ upper(SeenParse.piece) \in {"B", "R", "Q"}

\* C16: for every resolved bishop, rook or queen move the origin is on a
\* diagonal (bishop), orthogonal (rook) or either (queen) line through the
\* destination and every cell strictly between the two is empty.
C16_SlidersStopAtBlockers ==
    ResolvedSlider =>
        /\ SeenParse.from_rank \in Coords /\ SeenParse.from_file \in Coords
        /\ GeometryOk(upper(SeenParse.piece), last.is_white_turn, FALSE,
                      SeenParse.from_rank, SeenParse.from_file,
                      SeenParse.to_rank, SeenParse.to_file)
        /\ \A c \in Between(SeenParse.from_rank, SeenParse.from_file,
                            SeenParse.to_rank, SeenParse.to_file) :
              c[1] \in Coords /\ c[2] \in Coords => last.prev_board[c[1]][c[2]] = "."
        /\ last.prev_board[SeenParse.from_rank][SeenParse.from_file] = SeenParse.piece

\* White Bc4 after e4: the bishop comes from f1 over the empty e2 and d3
C16_Witness ==
    /\ ResolvedSlider /\ last.is_white_turn
    /\ last.move = <<"B", "c", "4">>
    /\ OriginIs(7, 5)
    /\ last.prev_board[6][4] = "." /\ last.prev_board[5][3] = "."
    /\ board[4][2] = "B"

\* the offsets in the order the claim lists them
OffsetOrder ==
    << <<-2, -1>>, <<-2, 1>>, <<-1, -2>>, <<-1, 2>>,
       <<1, -2>>, <<1, 2>>, <<2, -1>>, <<2, 1>> >>

\* the last call looked up a knight move
SeenKnightMove == SeenLookup /\ PieceChar(SeenText) = "N"

\* C17: a knight's origin is the first cell, in the fixed offset order
\* taken from the destination, that is on the board, holds the mover's
\* knight and matches every hint; none is found when there is none. From
\* the start White Nf3 resolves to (7,6) -> (5,5).
C17_KnightFirstOffset ==
    /\ SeenKnightMove =>
          LET knight == IF last.is_white_turn THEN "N" ELSE "n"
              cell(i) == <<SeenDest.rank + OffsetOrder[i][1],
                           SeenDest.file + OffsetOrder[i][2]>>
              fits(i) == /\ cell(i)[1] \in Coords /\ cell(i)[2] \in Coords
                         /\ last.prev_board[cell(i)[1]][cell(i)[2]] = knight
                         /\ HintsHonoured(Disambig(SeenText), cell(i)[1], cell(i)[2])
          IN  /\ (\A i \in 1..8 : ~fits(i)) => SeenParse.tag = "None"
              /\ \A i \in 1..8 :
                    (fits(i) /\ \A j \in 1..(i - 1) : ~fits(j)) =>
                        OriginIs(cell(i)[1], cell(i)[2])
    /\ (/\ Called /\ last.prev_board = StartBoard
        /\ last.move = <<"N", "f", "3">> /\ last.is_white_turn) =>
          /\ OriginIs(7, 6)
          /\ <<SeenParse.to_rank, SeenParse.to_file>> = <<5, 5>>

\* Black's Ne7 with black knights on c6 and g8: the g8 knight moves
C17_Witness ==
    /\ SeenKnightMove /\ ~last.is_white_turn
    /\ last.move = <<"N", "e", "7">>
    /\ last.prev_board[2][2] = "n" /\ last.prev_board[0][6] = "n"
    /\ OriginIs(0, 6)
    /\ board[1][4] = "n" /\ board[0][6] = "." /\ board[2][2] = "n"

\* the last trainer call was a move method, and it accepted a move
MoveCall == tlast.op \in {"make_computer_move", "check_player_move"}
Accepted == MoveCall /\ tlast.ret \in {"True", "move"}

\* the side the board was told when the accepted move was applied
AppliedAsWhite == last.is_white_turn

\* C18: the n-th accepted move after reset(), counted from 0, is applied
\* to the board as a White move exactly when n is even, and
\* current_position grows by exactly one entry per accepted move (and by
\* none otherwise); reset() empties it.
C18_SideIsPlyParity ==
    /\ (tlast.op \in {"init", "reset"}) => current_position = <<>>
    /\ (MoveCall /\ ~Accepted) => current_position = tlast.prev_position
    /\ Accepted =>
          /\ Len(current_position) = Len(tlast.prev_position) + 1
          /\ SubSeq(current_position, 1, Len(tlast.prev_position)) = tlast.prev_position
          /\ last.op = "make_move"
          /\ last.move = current_position[Len(current_position)]
          /\ last.prev_board = tlast.prev_board
          /\ AppliedAsWhite = (Len(tlast.prev_position) % 2 = 0)

\* the fourth accepted move of a line, a player's d5, applied as Black's
C18_Witness ==
    /\ Accepted /\ tlast.op = "check_player_move"
    /\ Len(tlast.prev_position) = 3
    /\ current_position = << <<"e", "4">>, <<"e", "6">>, <<"d", "4">>, <<"d", "5">> >>
    /\ ~AppliedAsWhite /\ board[3][3] = "p"

\* C19: with an opening loaded by build_simple_tree, every move the player
\* is asked for (the node has 'player': True) is applied as a move of
\* player_color, and every computer move as a move of the other colour.
C19_StartNamesPlayerColour ==
    (Accepted /\ opening_tree # EmptyTree) =>
        /\ (tlast.op = "check_player_move" /\ tlast.asked) =>
              AppliedAsWhite = (player_color = "white")
        /\ (tlast.op = "make_computer_move" /\ ~tlast.asked) =>
              AppliedAsWhite = (player_color # "white")

\* the options of the position the last trainer call was made at
OptionsBefore == get_current_options(opening_tree, tlast.prev_position)

\* the last call was check_player_move with a text the claim says is
\* rejected: blank, or at a position without options, or not an option
ToBeRejected ==
    /\ tlast.op = "check_player_move"
    /\ \/ \A i \in 1..Len(tlast.move) : tlast.move[i] = " "
       \/ OptionsBefore = <<>>
       \/ \A i \in 1..Len(OptionsBefore) : OptionsBefore[i].move # strip(tlast.move)

\* C20: check_player_move with an empty or blank move, a move that is not
\* among the position's options, or at a position without options returns
\* False and leaves current_position, the board and the flags unchanged,
\* so the position asked for is the same.
C20_RejectedMoveChangesNothing ==
    ToBeRejected =>
        /\ tlast.ret = "False" /\ tlast.msg # ""
        /\ ~tlast.called
        /\ current_position = tlast.prev_position
        /\ board = tlast.prev_board
        /\ Flags = tlast.prev_flags
        /\ is_player_turn(opening_tree, current_position) = tlast.asked

\* Qh5 answered to 1. e4 at the player's node: rejected, e4 still played
C20_Witness ==
    /\ ToBeRejected /\ tlast.asked
    /\ tlast.move = <<"Q", "h", "5">>
    /\ tlast.msg = "Incorrect!"
    /\ current_position = << <<"e", "4">> >>
    /\ board[4][4] = "P"

\* ---- a line of the opening played by the rules of chess, read from the
\* ---- move text alone: piece letter, capture marker, destination square
TextPiece(m) == IF m[1] \in {"N", "B", "R", "Q", "K"} THEN m[1] ELSE "P"
TextCapture(m) == \E i \in 1..Len(m) : m[i] = "x"
TextDestRank(m) == CHOOSE r \in Coords : RankDigits[r + 1] = m[Len(m)]
TextDestFile(m) == CHOOSE f \in Coords : FileLetters[f + 1] = m[Len(m) - 1]

WhitePieces == {"P", "N", "B", "R", "Q", "K"}
BlackPieces == {"p", "n", "b", "r", "q", "k"}

\* the piece of that type and colour on (fr, ff) may move to (tr, tf)
Reaches(b, type, is_white, capture, fr, ff, tr, tf) ==
    /\ b[fr][ff] = (IF is_white THEN type ELSE lower(type))
    /\ GeometryOk(type, is_white, capture, fr, ff, tr, tf)
    /\ (type = "P" /\ capture) => Abs(tf - ff) = 1
    /\ (type # "N") =>
          \A c \in Between(fr, ff, tr, tf) : b[c[1]][c[2]] = "."
    /\ IF capture
       THEN b[tr][tf] \in (IF is_white THEN BlackPieces ELSE WhitePieces)
       ELSE b[tr][tf] = "."

\* the cells a move text can start from
Origins(b, m, is_white) ==
    {c \in Coords \X Coords :
        Reaches(b, TextPiece(m), is_white, TextCapture(m), c[1], c[2],
                TextDestRank(m), TextDestFile(m))}

\* the board after the move, when exactly one piece can make it
Played(b, m, is_white) ==
    LET from == CHOOSE c \in Origins(b, m, is_white) : TRUE
    IN  IF Cardinality(Origins(b, m, is_white)) # 1
        THEN [ok |-> FALSE, board |-> b]
        ELSE [ok |-> TRUE,
              board |-> put(put(b, from[1], from[2], "."),
                            TextDestRank(m), TextDestFile(m), b[from[1]][from[2]])]

\* the first n moves of a line played from the starting position, White first
RECURSIVE Replay(_, _)
Replay(position, n) ==
    IF n = 0 THEN [ok |-> TRUE, board |-> StartBoard]
    ELSE LET before == Replay(position, n - 1)
             after == Played(before.board, position[n], n % 2 = 1)
         IN  [ok |-> before.ok /\ after.ok, board |-> after.board]

\* C21: on the example opening every move of every line is resolved and
\* applied by make_move (it returns True), and after each ply the board is
\* the position reached by playing exactly the moves of current_position.
C21_LinesArePlayedOnTheBoard ==
    (opening_tree = ExampleTree) =>
        /\ Accepted => (last.op = "make_move" /\ last.res = "True"
                        /\ last.move = current_position[Len(current_position)])
        /\ Replay(current_position, Len(current_position)).ok
        /\ board = Replay(current_position, Len(current_position)).board

\* the end of the line 1. e4 e5 2. Nf3 Nf6 3. Nxe5: the knight stands on e5
C21_Witness ==
    /\ opening_tree = ExampleTree /\ Accepted
    /\ current_position =
          << <<"e", "4">>, <<"e", "5">>, <<"N", "f", "3">>,
             <<"N", "f", "6">>, <<"N", "x", "e", "5">> >>
    /\ last.res = "True"
    /\ board[3][4] = "N" /\ board[5][5] = "." /\ board[2][5] = "n"

\* a reset trainer in the loop on the example opening
FreshSession ==
    /\ session = "loop" /\ opening_tree = ExampleTree
    /\ current_position = <<>> /\ board = StartBoard

\* the loop's end-of-line test succeeds
EndOfLine == ~has_more_moves(opening_tree, current_position)

\* the player has done something other than enter a valid move: a
\* rejected move, a command, or a start over in the middle of a line
PlayerDeviated ==
    \/ tlast.op = "check_player_move" /\ tlast.ret = "False"
    \/ tlast.op = "show"
    \/ tlast.op = "reset" /\ has_more_moves(opening_tree, tlast.prev_position)
    \/ session = "ended" /\ has_more_moves(opening_tree, current_position)

\* C22: from a reset trainer on the example opening, with the computer
\* branch taken whenever it is not the player's turn, the loop reaches a
\* position where has_more_moves() is false unless the player enters
\* something other than a valid move; and the computer branch never finds
\* an empty option list.
C22_SessionReachesEndOfLine ==
    /\ FreshSession ~> (EndOfLine \/ PlayerDeviated)
    /\ [](tlast.msg # "No more moves available in this line!")

\* the end of a line reached in the loop without a deviation: six plies
C22_Witness ==
    /\ session = "loop" /\ EndOfLine /\ ~PlayerDeviated
    /\ Len(current_position) = 6
    /\ tlast.op = "check_player_move" /\ tlast.ret = "True"
    /\ tlast.move = <<"B", "b", "4">>

====
